---- MODULE Spec2Model ----
(***************************************************************************)
(* A model of unittest.c: a runner owning a forest of test suites, each    *)
(* suite owning a sibling-linked list of test cases and of child suites,   *)
(* each case owning a growable array of recorded statuses.                 *)
(*                                                                         *)
(* Pointers are object ids, NULL is 0.  The heap objects are the records   *)
(* of `suites' and `cases' (indexed by id) and the single runner.          *)
(***************************************************************************)
EXTENDS Integers, Sequences, FiniteSets, TLC

VARIABLES
    runners,    \* the test_runner_t objects alive: [{RUNNER} or {} -> struct]
    suites,     \* the test_suite_t objects alive: id -> struct
    cases,      \* the test_case_t objects alive:  id -> struct
    heap,       \* the malloc'ed blocks not yet freed
    frees,      \* the free() calls of the most recent call, in call order
    out,        \* what the most recent call wrote to stdout, line by line
    warned,     \* what the most recent call wrote to stderr (case names)
    invoked,    \* the test functions the most recent call invoked, in order
    accepted,   \* history: per case, the statuses of the appends that returned 0
    added,      \* history: per list, the objects added to it, in call order
    reports,    \* history: the reports made since the tree last changed (0, 1, 2+)
    last        \* the most recent call: its name, arguments and return value

vars == <<runners, suites, cases, heap, frees, out, warned, invoked,
          accepted, added, reports, last>>

----------------------------------------------------------------------------
(* Bounds of the model.                                                    *)

\* Spec: suites, cases, recorded results per case.
MaxSuites == 2
MaxCases == 2
MaxLog == 4
\* SpecBuild: suites, cases.
MaxBuildSuites == 3
MaxBuildCases == 2
\* SpecLog: recorded results of the one case.
MaxLogLen == 17
\* SpecTeardown: suites, cases.
MaxTeardownSuites == 2
MaxTeardownCases == 2

----------------------------------------------------------------------------
(* Program constants.                                                      *)

NULL == 0
RUNNER == 1

INITIAL_RESULT_CAPACITY == 8

STATUS_SUCCESS == 0
STATUS_UNEXPECTED_OUTPUT == 1
STATUS_EXPECTED_BUILD_ERROR == 2
STATUS_BUILD_ERROR == 3
STATUS_EXPECTED_RUNTIME_ERROR == 4
STATUS_RUNTIME_ERROR == 5

TARGET_WIDTH == 50
PREFIX_BUFFER == 256

\* A slot of a results array that realloc handed out and nothing wrote yet.
UNINIT == -1

ZeroStats ==
    [success_count |-> 0, unexpected_output_count |-> 0,
     expected_build_error_count |-> 0, build_error_count |-> 0,
     expected_runtime_error_count |-> 0, runtime_error_count |-> 0]

----------------------------------------------------------------------------
(* Inputs the caller supplies.                                             *)

\* Test functions are function pointers 1, 2, ...; the k-th case is created
\* with no function or with function k.
FuncReturn(f) ==
    CASE f = 1 -> STATUS_SUCCESS
      [] f = 2 -> STATUS_BUILD_ERROR
      [] OTHER -> STATUS_RUNTIME_ERROR

\* Names (ASCII, so one byte and one display column per character).
LongName == "a_suite_name_long_enough_to_reach_the_stats_col"
SuiteNames == <<"Math", "Edge", LongName>>
CaseNames == <<"Add", "Overflow", "Flaky">>
SuiteNameOf(k) == IF k <= Len(SuiteNames) THEN SuiteNames[k] ELSE "Extra"
CaseNameOf(k) == IF k <= Len(CaseNames) THEN CaseNames[k] ELSE "More"

SuiteIds == 1 .. (MaxSuites + MaxBuildSuites)
CaseIds == 1 .. (MaxCases + MaxBuildCases)

----------------------------------------------------------------------------
(* Sequences helpers.                                                      *)

Range(s) == {s[i] : i \in 1 .. Len(s)}
Occurrences(s, x) == Cardinality({i \in 1 .. Len(s) : s[i] = x})

----------------------------------------------------------------------------
(* Heap blocks.                                                            *)

RunnerBlock == <<"runner", RUNNER>>
SuiteBlock(s) == <<"suite", s>>
SuiteNameBlock(s) == <<"suite_name", s>>
CaseBlock(c) == <<"case", c>>
CaseNameBlock(c) == <<"case_name", c>>
ResultsBlock(c) == <<"results", c>>

----------------------------------------------------------------------------
(* Constructors.                                                           *)

test_runner_create == [root_suite |-> NULL, global_stats |-> ZeroStats]

test_suite_create(name) ==
    [name |-> name, test_cases |-> NULL, child_suites |-> NULL,
     next |-> NULL, stats |-> ZeroStats]

test_case_create(name, test_func) ==
    [name |-> name, test_func |-> test_func, results |-> <<>>,
     result_count |-> 0, result_capacity |-> 0, next |-> NULL]

----------------------------------------------------------------------------
(* Sibling chains: the order in which the code walks a list.               *)

RECURSIVE SuiteChain(_, _)
SuiteChain(S, head) ==
    IF head = NULL THEN <<>> ELSE <<head>> \o SuiteChain(S, S[head].next)

RECURSIVE CaseChain(_, _)
CaseChain(C, head) ==
    IF head = NULL THEN <<>> ELSE <<head>> \o CaseChain(C, C[head].next)

RECURSIVE SuiteTail(_, _)
SuiteTail(S, current) ==
    IF S[current].next = NULL THEN current ELSE SuiteTail(S, S[current].next)

RECURSIVE CaseTail(_, _)
CaseTail(C, current) ==
    IF C[current].next = NULL THEN current ELSE CaseTail(C, C[current].next)

\* The recorded outcomes of a case: results[0 .. result_count-1].
Log(tc) == SubSeq(tc.results, 1, tc.result_count)

----------------------------------------------------------------------------
(* Structural mutators.                                                    *)

\* Mutant: the child is put at the head of the list.
test_suite_add_child_prepending(S, parent, child) ==
    IF parent = NULL \/ child = NULL THEN S
    ELSE [S EXCEPT ![child].next = S[parent].child_suites,
                   ![parent].child_suites = child]

test_suite_add_child(S, parent, child) ==
    IF parent = NULL \/ child = NULL THEN S
    ELSE IF S[parent].child_suites = NULL
         THEN [S EXCEPT ![parent].child_suites = child]
         ELSE [S EXCEPT ![SuiteTail(S, S[parent].child_suites)].next = child]

\* Returns <<suites, cases>>: the head pointer lives in the suite, the links
\* in the cases.
test_suite_add_test_case(S, C, suite, test_case) ==
    IF suite = NULL \/ test_case = NULL THEN <<S, C>>
    ELSE IF S[suite].test_cases = NULL
         THEN <<[S EXCEPT ![suite].test_cases = test_case], C>>
         ELSE <<S, [C EXCEPT ![CaseTail(C, S[suite].test_cases)].next = test_case]>>

\* Returns <<runners, suites>>.
test_runner_add_suite(R, S, runner, suite) ==
    IF runner = NULL \/ suite = NULL THEN <<R, S>>
    ELSE IF R[runner].root_suite = NULL
         THEN <<[R EXCEPT ![runner].root_suite = suite], S>>
         ELSE <<R, [S EXCEPT ![SuiteTail(S, R[runner].root_suite)].next = suite]>>

----------------------------------------------------------------------------
(* The outcome log of a case.                                              *)

\* realloc(results, new_capacity): the old contents, then fresh slots.
Realloc(results, new_capacity) ==
    results \o [i \in 1 .. (new_capacity - Len(results)) |-> UNINIT]

\* Mutant: the array is grown by malloc, the old contents are not copied.
test_case_add_result_without_copy(C, test_case, status, alloc_ok) ==
    IF test_case = NULL THEN <<C, -1>>
    ELSE LET tc == C[test_case]
             grow == tc.result_count >= tc.result_capacity
             new_capacity == IF tc.result_capacity = 0
                             THEN INITIAL_RESULT_CAPACITY
                             ELSE tc.result_capacity * 2
         IN IF grow /\ ~alloc_ok THEN <<C, -1>>
            ELSE LET grown == IF grow
                              THEN [tc EXCEPT !.results = Realloc(<<>>, new_capacity),
                                              !.result_capacity = new_capacity]
                              ELSE tc
                 IN <<[C EXCEPT ![test_case] =
                          [grown EXCEPT !.results[grown.result_count + 1] = status,
                                        !.result_count = @ + 1]], 0>>

\* Returns <<cases, return value>>.  alloc_ok: whether a realloc, if this
\* call makes one, succeeds.
test_case_add_result(C, test_case, status, alloc_ok) ==
    IF test_case = NULL THEN <<C, -1>>
    ELSE LET tc == C[test_case]
             grow == tc.result_count >= tc.result_capacity
             new_capacity == IF tc.result_capacity = 0
                             THEN INITIAL_RESULT_CAPACITY
                             ELSE tc.result_capacity * 2
         IN IF grow /\ ~alloc_ok THEN <<C, -1>>
            ELSE LET grown == IF grow
                              THEN [tc EXCEPT !.results = Realloc(@, new_capacity),
                                              !.result_capacity = new_capacity]
                              ELSE tc
                 IN <<[C EXCEPT ![test_case] =
                          [grown EXCEPT !.results[grown.result_count + 1] = status,
                                        !.result_count = @ + 1]], 0>>

\* The for loop of test_case_add_results_va from iteration i (0-based);
\* fail: the iterations whose realloc, if they make one, fails.
RECURSIVE add_results_loop(_, _, _, _, _, _)

\* Mutant: a failed append is skipped and the later ones are still made.
add_results_loop_skipping_failures(C, test_case, count, args, fail, i) ==
    IF i >= count THEN <<C, 0>>
    ELSE LET r == test_case_add_result(C, test_case, args[i + 1], i \notin fail)
             rest == add_results_loop(r[1], test_case, count, args, fail, i + 1)
         IN <<rest[1], IF r[2] # 0 THEN -1 ELSE rest[2]>>

add_results_loop(C, test_case, count, args, fail, i) ==
    IF i >= count THEN <<C, 0>>
    ELSE LET r == test_case_add_result(C, test_case, args[i + 1], i \notin fail)
         IN IF r[2] # 0 THEN <<r[1], -1>>
            ELSE add_results_loop(r[1], test_case, count, args, fail, i + 1)

\* Returns <<cases, return value>>.
test_case_add_results_va(C, test_case, count, args, fail) ==
    IF test_case = NULL \/ count <= 0 THEN <<C, -1>>
    ELSE add_results_loop(C, test_case, count, args, fail, 0)

----------------------------------------------------------------------------
(* Statistics.                                                             *)

StatsIncrement(stats, status) ==
    CASE status = STATUS_SUCCESS ->
            [stats EXCEPT !.success_count = @ + 1]
      [] status = STATUS_UNEXPECTED_OUTPUT ->
            [stats EXCEPT !.unexpected_output_count = @ + 1]
      [] status = STATUS_EXPECTED_BUILD_ERROR ->
            [stats EXCEPT !.expected_build_error_count = @ + 1]
      [] status = STATUS_BUILD_ERROR ->
            [stats EXCEPT !.build_error_count = @ + 1]
      [] status = STATUS_EXPECTED_RUNTIME_ERROR ->
            [stats EXCEPT !.expected_runtime_error_count = @ + 1]
      [] status = STATUS_RUNTIME_ERROR ->
            [stats EXCEPT !.runtime_error_count = @ + 1]
      [] OTHER -> stats

StatsAdd(a, b) ==
    [success_count |-> a.success_count + b.success_count,
     unexpected_output_count |->
        a.unexpected_output_count + b.unexpected_output_count,
     expected_build_error_count |->
        a.expected_build_error_count + b.expected_build_error_count,
     build_error_count |-> a.build_error_count + b.build_error_count,
     expected_runtime_error_count |->
        a.expected_runtime_error_count + b.expected_runtime_error_count,
     runtime_error_count |-> a.runtime_error_count + b.runtime_error_count]

\* The for loop over one case's results, from index i (0-based).
RECURSIVE CountResults(_, _, _)
CountResults(stats, tc, i) ==
    IF i >= tc.result_count THEN stats
    ELSE CountResults(StatsIncrement(stats, tc.results[i + 1]), tc, i + 1)

\* The while loop over a suite's cases.
RECURSIVE CountCases(_, _, _)
CountCases(stats, C, current_case) ==
    IF current_case = NULL THEN stats
    ELSE CountCases(CountResults(stats, C[current_case], 0), C,
                    C[current_case].next)

RECURSIVE calculate_suite_stats(_, _, _)
RECURSIVE AddChildStats(_, _, _, _)

\* Mutant: the child suites' stats are not added in.
calculate_suite_stats_own_cases_only(S, C, suite) ==
    IF suite = NULL THEN S
    ELSE [S EXCEPT ![suite].stats = CountCases(ZeroStats, C, S[suite].test_cases)]

\* Mutant: the stats are not reset before counting.
calculate_suite_stats_no_reset(S, C, suite) ==
    IF suite = NULL THEN S
    ELSE LET S1 == [S EXCEPT ![suite].stats =
                       CountCases(@, C, S[suite].test_cases)]
         IN AddChildStats(S1, C, suite, S1[suite].child_suites)

\* Returns the suites, with the stats of `suite' and of its descendants set.
calculate_suite_stats(S, C, suite) ==
    IF suite = NULL THEN S
    ELSE LET S0 == [S EXCEPT ![suite].stats = ZeroStats]
             S1 == [S0 EXCEPT ![suite].stats =
                       CountCases(@, C, S0[suite].test_cases)]
         IN AddChildStats(S1, C, suite, S1[suite].child_suites)

\* The while loop over the child suites.
AddChildStats(S, C, suite, current_suite) ==
    IF current_suite = NULL THEN S
    ELSE LET S1 == calculate_suite_stats(S, C, current_suite)
             S2 == [S1 EXCEPT ![suite].stats = StatsAdd(@, S1[current_suite].stats)]
         IN AddChildStats(S2, C, suite, S2[current_suite].next)

\* The first while loop of print_test_results.
RECURSIVE CalculateAll(_, _, _)
CalculateAll(S, C, current) ==
    IF current = NULL THEN S
    ELSE LET S1 == calculate_suite_stats(S, C, current)
         IN CalculateAll(S1, C, S1[current].next)

----------------------------------------------------------------------------
(* Rendering.  A line of output is a record; a prefix is a sequence of     *)
(* glyphs, "BAR" for the 3-byte box-drawing vertical bar and "SP" for a    *)
(* space.                                                                  *)

get_status_color(status) ==
    CASE status = STATUS_SUCCESS -> "ANSI_GREEN"
      [] status = STATUS_UNEXPECTED_OUTPUT -> "ANSI_YELLOW"
      [] status \in {STATUS_EXPECTED_BUILD_ERROR, STATUS_EXPECTED_RUNTIME_ERROR} ->
            "ANSI_GRAY"
      [] status \in {STATUS_BUILD_ERROR, STATUS_RUNTIME_ERROR} -> "ANSI_RED"
      [] OTHER -> "ANSI_RESET"

get_status_char(status) ==
    CASE status \in {STATUS_SUCCESS, STATUS_UNEXPECTED_OUTPUT} -> "K"
      [] status \in {STATUS_EXPECTED_BUILD_ERROR, STATUS_BUILD_ERROR} -> "B"
      [] status \in {STATUS_EXPECTED_RUNTIME_ERROR, STATUS_RUNTIME_ERROR} -> "R"
      [] OTHER -> "?"

Line(kind, prefix, connector, name, padding, stats, marks) ==
    [kind |-> kind, prefix |-> prefix, connector |-> connector, name |-> name,
     padding |-> padding, stats |-> stats, marks |-> marks]

print_legend ==
    << Line("legend", <<>>, "", "K - success / K - unexpected output", 0, ZeroStats, <<>>),
       Line("legend", <<>>, "", "B - expected build error / B - build error", 0, ZeroStats, <<>>),
       Line("legend", <<>>, "", "R - expected runtime error / R - runtime error", 0, ZeroStats, <<>>),
       Line("legend", <<>>, "", "", 0, ZeroStats, <<>>) >>

\* The bytes of a glyph: the vertical bar is U+2502, three bytes in UTF-8; a
\* space, or a byte left of a bar that was cut, is one.
BarBytes == <<"BYTE_e2", "BYTE_94", "BYTE_82">>
GlyphByteSeq(g) == IF g = "BAR" THEN BarBytes ELSE <<g>>

\* strlen of a glyph, and of a prefix: bytes, not display columns.
GlyphBytes(g) == Len(GlyphByteSeq(g))

strlen_prefix(prefix) ==
    Len(prefix)
    + (GlyphBytes("BAR") - 1) * Cardinality({i \in 1 .. Len(prefix) : prefix[i] = "BAR"})

\* The leading glyphs of a prefix that fit whole in 255 bytes.
WholeGlyphs(prefix) ==
    LET Fits(k) == strlen_prefix(SubSeq(prefix, 1, k)) <= PREFIX_BUFFER - 1
    IN SubSeq(prefix, 1, CHOOSE k \in 0 .. Len(prefix) :
                            Fits(k) /\ (k < Len(prefix) => ~Fits(k + 1)))

\* snprintf into new_prefix[256]: the first 255 bytes.  The cut may fall
\* inside a vertical bar, of which one or two bytes are then kept.
snprintf_prefix(prefix) ==
    IF strlen_prefix(prefix) <= PREFIX_BUFFER - 1 THEN prefix
    ELSE LET whole == WholeGlyphs(prefix)
             room == PREFIX_BUFFER - 1 - strlen_prefix(whole)
         IN whole \o SubSeq(GlyphByteSeq(prefix[Len(whole) + 1]), 1, room)

\* int padding = 50 - strlen(prefix) - name_len - 2; floored at 1.  The
\* operands here are far from the width of int and size_t.
Padding(prefix, name) ==
    LET padding == TARGET_WIDTH - strlen_prefix(prefix) - Len(name) - 2
    IN IF padding < 1 THEN 1 ELSE padding

\* The coloured glyphs of one case's results, from index i (0-based).
RECURSIVE PrintMarks(_, _)
PrintMarks(tc, i) ==
    IF i >= tc.result_count THEN <<>>
    ELSE << <<get_status_color(tc.results[i + 1]), get_status_char(tc.results[i + 1])>> >>
         \o PrintMarks(tc, i + 1)

\* The while loop over a suite's cases in print_tree_node.
RECURSIVE PrintCases(_, _, _, _, _)
PrintCases(S, C, suite, new_prefix, current_case) ==
    IF current_case = NULL THEN <<>>
    ELSE LET tc == C[current_case]
             is_last_case == tc.next = NULL /\ S[suite].child_suites = NULL
         IN << Line("case", new_prefix, IF is_last_case THEN "CORNER" ELSE "TEE",
                    tc.name, 0, ZeroStats, PrintMarks(tc, 0)) >>
            \o PrintCases(S, C, suite, new_prefix, tc.next)

RECURSIVE print_tree_node(_, _, _, _, _)
RECURSIVE PrintChildren(_, _, _, _)

\* Returns the lines written.
print_tree_node(S, C, suite, prefix, is_last) ==
    IF suite = NULL THEN <<>>
    ELSE LET new_prefix ==
                 snprintf_prefix(prefix \o <<IF is_last THEN "SP" ELSE "BAR", "SP">>)
         IN << Line("suite", prefix, IF is_last THEN "CORNER" ELSE "TEE",
                    S[suite].name, Padding(prefix, S[suite].name),
                    S[suite].stats, <<>>) >>
            \o PrintChildren(S, C, new_prefix, S[suite].child_suites)
            \o PrintCases(S, C, suite, new_prefix, S[suite].test_cases)

\* The while loop over child suites (and over the top-level suites).
PrintChildren(S, C, prefix, current_suite) ==
    IF current_suite = NULL THEN <<>>
    ELSE print_tree_node(S, C, current_suite, prefix, S[current_suite].next = NULL)
         \o PrintChildren(S, C, prefix, S[current_suite].next)

\* Returns <<suites, lines written>>.
print_test_results(R, S, C, runner) ==
    IF runner = NULL \/ R[runner].root_suite = NULL THEN <<S, <<>> >>
    ELSE LET S1 == CalculateAll(S, C, R[runner].root_suite)
         IN <<S1, print_legend \o PrintChildren(S1, C, <<>>, R[runner].root_suite)>>

----------------------------------------------------------------------------
(* Running.                                                                *)

\* The inner while loop of test_runner_run; st = [C, invoked, warned].
\* fail: the cases whose realloc, if the append makes one, fails.
RECURSIVE RunCases(_, _, _)

\* Mutant: the function is called whether or not results were recorded.
RunCases_ignoring_manual_results(st, current_case, fail) ==
    IF current_case = NULL THEN st
    ELSE LET tc == st.C[current_case]
         IN IF tc.test_func # NULL
            THEN LET result == FuncReturn(tc.test_func)
                     r == test_case_add_result(st.C, current_case, result,
                                               current_case \notin fail)
                 IN RunCases([C |-> r[1],
                              invoked |-> Append(st.invoked, current_case),
                              warned |-> IF r[2] # 0
                                         THEN Append(st.warned, tc.name)
                                         ELSE st.warned],
                             tc.next, fail)
            ELSE RunCases(st, tc.next, fail)

\* Mutant: a failed append ends the loop over the suite's cases.
RunCases_stopping_at_failure(st, current_case, fail) ==
    IF current_case = NULL THEN st
    ELSE LET tc == st.C[current_case]
         IN IF tc.test_func # NULL /\ tc.result_count = 0
            THEN LET result == FuncReturn(tc.test_func)
                     r == test_case_add_result(st.C, current_case, result,
                                               current_case \notin fail)
                 IN IF r[2] # 0
                    THEN [C |-> r[1],
                          invoked |-> Append(st.invoked, current_case),
                          warned |-> Append(st.warned, tc.name)]
                    ELSE RunCases([C |-> r[1],
                                   invoked |-> Append(st.invoked, current_case),
                                   warned |-> st.warned],
                                  tc.next, fail)
            ELSE RunCases(st, tc.next, fail)
RunCases(st, current_case, fail) ==
    IF current_case = NULL THEN st
    ELSE LET tc == st.C[current_case]
         IN IF tc.test_func # NULL /\ tc.result_count = 0
            THEN LET result == FuncReturn(tc.test_func)
                     r == test_case_add_result(st.C, current_case, result,
                                               current_case \notin fail)
                 IN RunCases([C |-> r[1],
                              invoked |-> Append(st.invoked, current_case),
                              warned |-> IF r[2] # 0
                                         THEN Append(st.warned, tc.name)
                                         ELSE st.warned],
                             tc.next, fail)
            ELSE RunCases(st, tc.next, fail)

\* The outer while loop of test_runner_run.
RECURSIVE RunSuites(_, _, _, _)
RunSuites(S, st, current_suite, fail) ==
    IF current_suite = NULL THEN st
    ELSE RunSuites(S, RunCases(st, S[current_suite].test_cases, fail),
                   S[current_suite].next, fail)

\* Returns [S, C, out, invoked, warned].
test_runner_run(R, S, C, runner, fail) ==
    IF runner = NULL
    THEN [S |-> S, C |-> C, out |-> <<>>, invoked |-> <<>>, warned |-> <<>>]
    ELSE LET st == RunSuites(S, [C |-> C, invoked |-> <<>>, warned |-> <<>>],
                             R[runner].root_suite, fail)
             p == print_test_results(R, S, st.C, runner)
         IN [S |-> p[1], C |-> st.C, out |-> p[2],
             invoked |-> st.invoked, warned |-> st.warned]

----------------------------------------------------------------------------
(* Destruction.  Each operator returns the free() calls it makes, in       *)
(* order; free(NULL) frees nothing.                                        *)

test_case_destroy(C, test_case) ==
    IF test_case = NULL THEN <<>>
    ELSE <<CaseNameBlock(test_case)>>
         \o (IF C[test_case].result_capacity = 0 THEN <<>>
             ELSE <<ResultsBlock(test_case)>>)
         \o <<CaseBlock(test_case)>>

RECURSIVE test_case_destroy_siblings(_, _)
test_case_destroy_siblings(C, test_case) ==
    IF test_case = NULL THEN <<>>
    ELSE LET next == C[test_case].next
         IN test_case_destroy(C, test_case) \o test_case_destroy_siblings(C, next)

RECURSIVE test_suite_destroy(_, _, _)
RECURSIVE test_suite_destroy_siblings(_, _, _)

\* Mutant: the child suites are not destroyed.
test_suite_destroy_leaking_children(S, C, suite) ==
    IF suite = NULL THEN <<>>
    ELSE test_case_destroy_siblings(C, S[suite].test_cases)
         \o <<SuiteNameBlock(suite), SuiteBlock(suite)>>

test_suite_destroy(S, C, suite) ==
    IF suite = NULL THEN <<>>
    ELSE test_case_destroy_siblings(C, S[suite].test_cases)
         \o test_suite_destroy_siblings(S, C, S[suite].child_suites)
         \o <<SuiteNameBlock(suite), SuiteBlock(suite)>>

test_suite_destroy_siblings(S, C, suite) ==
    IF suite = NULL THEN <<>>
    ELSE LET next == S[suite].next
         IN test_suite_destroy(S, C, suite) \o test_suite_destroy_siblings(S, C, next)

test_runner_destroy(R, S, C, runner) ==
    IF runner = NULL THEN <<>>
    ELSE test_suite_destroy_siblings(S, C, R[runner].root_suite) \o <<RunnerBlock>>

----------------------------------------------------------------------------
(* The shape of the forest.                                                *)

Restrict(f, D) == [x \in D |-> f[x]]

Children(S, s) == SuiteChain(S, S[s].child_suites)
CasesOf(S, C, s) == CaseChain(C, S[s].test_cases)
TopLevel(R, S) == IF RUNNER \in DOMAIN R THEN SuiteChain(S, R[RUNNER].root_suite)
                  ELSE <<>>

RECURSIVE SubtreeSuites(_, _)
SubtreeSuites(S, s) ==
    {s} \cup UNION {SubtreeSuites(S, k) : k \in Range(Children(S, s))}

\* The suites the runner reaches: top-level and nested at any depth.
ReachableSuites(R, S) == UNION {SubtreeSuites(S, s) : s \in Range(TopLevel(R, S))}
ReachableCases(R, S, C) ==
    UNION {Range(CasesOf(S, C, s)) : s \in ReachableSuites(R, S)}

AttachedSuite(R, S, s) ==
    \/ \E r \in DOMAIN R : R[r].root_suite = s
    \/ \E p \in DOMAIN S : S[p].child_suites = s \/ S[p].next = s
AttachedCase(S, C, c) ==
    \/ \E p \in DOMAIN S : S[p].test_cases = c
    \/ \E d \in DOMAIN C : C[d].next = c

\* The objects created and not yet attached to a parent.
LooseSuites == {s \in DOMAIN suites : ~AttachedSuite(runners, suites, s)}
LooseCases == {c \in DOMAIN cases : ~AttachedCase(suites, cases, c)}

\* The caller attaches what it created before it creates the next one.
Tidy == LooseSuites = {} /\ LooseCases = {}

\* The pointer test_runner_create returned to the caller: NULL if it failed.
Runner == IF RUNNER \in DOMAIN runners THEN RUNNER ELSE NULL

\* The caller has not called test_runner_destroy yet.
Alive == last.op # "test_runner_destroy"

\* The tree is built and the results are recorded before the first report;
\* after it the caller prints again or tears the tree down.
Reporting == reports >= 1
Building == Alive /\ ~Reporting

Call(op, args, rc) == [op |-> op, args |-> args, rc |-> rc]

\* A call that prints nothing, and one that frees nothing either.
NoPrint == /\ out' = <<>>
           /\ warned' = <<>>
           /\ invoked' = <<>>
           /\ reports' = 0
NoOutput == NoPrint /\ frees' = <<>>

\* malloc hands out an address not in use: the least free id.
FreshId(D) == CHOOSE i \in 1 .. Cardinality(D) + 1 :
                 i \notin D /\ \A j \in 1 .. i - 1 : j \in D

\* What the two allocations of a constructor may do.
AllocOutcomes == {"ok", "malloc_fails", "strdup_fails"}

----------------------------------------------------------------------------
(* Initial state: a runner just created, nothing else.                     *)

Init ==
    /\ \E alloc_ok \in BOOLEAN :
         IF alloc_ok
         THEN /\ runners = [r \in {RUNNER} |-> test_runner_create]
              /\ heap = {RunnerBlock}
              /\ last = Call("test_runner_create", <<>>, RUNNER)
         ELSE \* malloc failed: return NULL
              /\ runners = <<>>
              /\ heap = {}
              /\ last = Call("test_runner_create", <<>>, NULL)
    /\ suites = <<>>
    /\ cases = <<>>
    /\ frees = <<>>
    /\ out = <<>>
    /\ warned = <<>>
    /\ invoked = <<>>
    /\ accepted = [c \in CaseIds |-> <<>>]
    /\ added = [top |-> <<>>,
                children |-> [s \in SuiteIds |-> <<>>],
                cases |-> [s \in SuiteIds |-> <<>>]]
    /\ reports = 0

----------------------------------------------------------------------------
(* Calls of the public interface.  The creators take the caller's pace     *)
(* (ready: whether the caller creates another object now), the mutators    *)
(* the sets their arguments are drawn from.                                *)

SuiteCreateCall(ready, limit) ==
    /\ Building
    /\ ready
    /\ Cardinality(DOMAIN suites) < limit
    /\ \E alloc \in AllocOutcomes :
         LET id == FreshId(DOMAIN suites)
         IN IF alloc = "ok"
            THEN /\ suites' = [s \in DOMAIN suites \cup {id} |->
                                  IF s = id THEN test_suite_create(SuiteNameOf(id))
                                  ELSE suites[s]]
                 /\ heap' = heap \cup {SuiteBlock(id), SuiteNameBlock(id)}
                 /\ frees' = <<>>
                 /\ last' = Call("test_suite_create", <<>>, id)
            ELSE \* return NULL; after a failed strdup the struct is freed
                 /\ suites' = suites
                 /\ heap' = heap
                 /\ frees' = IF alloc = "strdup_fails" THEN <<SuiteBlock(id)>> ELSE <<>>
                 /\ last' = Call("test_suite_create", <<>>, NULL)
    /\ NoPrint
    /\ UNCHANGED <<runners, cases, accepted, added>>

CaseCreateCall(ready, limit, with_func) ==
    /\ Building
    /\ ready
    /\ Cardinality(DOMAIN cases) < limit
    /\ \E test_func \in {NULL} \cup (IF with_func THEN {FreshId(DOMAIN cases)} ELSE {}),
          alloc \in AllocOutcomes :
         LET id == FreshId(DOMAIN cases)
         IN IF alloc = "ok"
            THEN /\ cases' = [c \in DOMAIN cases \cup {id} |->
                                 IF c = id
                                 THEN test_case_create(CaseNameOf(id), test_func)
                                 ELSE cases[c]]
                 /\ heap' = heap \cup {CaseBlock(id), CaseNameBlock(id)}
                 /\ frees' = <<>>
                 /\ last' = Call("test_case_create", <<>>, id)
            ELSE \* return NULL; after a failed strdup the struct is freed
                 /\ cases' = cases
                 /\ heap' = heap
                 /\ frees' = IF alloc = "strdup_fails" THEN <<CaseBlock(id)>> ELSE <<>>
                 /\ last' = Call("test_case_create", <<>>, NULL)
    /\ NoPrint
    /\ UNCHANGED <<runners, suites, accepted, added>>

\* A child is attached once, and never below itself.
AddChildCall(parents, children) ==
    /\ Building
    /\ \E parent \in parents, child \in children :
         /\ (parent # NULL /\ child # NULL) => parent \notin SubtreeSuites(suites, child)
         /\ suites' = test_suite_add_child(suites, parent, child)
         /\ added' = IF parent = NULL \/ child = NULL THEN added
                     ELSE [added EXCEPT !.children[parent] = Append(@, child)]
         /\ last' = Call("test_suite_add_child", <<parent, child>>, 0)
    /\ NoOutput
    /\ UNCHANGED <<runners, cases, heap, accepted>>

AddTestCaseCall(parents, children) ==
    /\ Building
    /\ \E suite \in parents, test_case \in children :
         LET r == test_suite_add_test_case(suites, cases, suite, test_case)
         IN /\ suites' = r[1]
            /\ cases' = r[2]
            /\ added' = IF suite = NULL \/ test_case = NULL THEN added
                        ELSE [added EXCEPT !.cases[suite] = Append(@, test_case)]
            /\ last' = Call("test_suite_add_test_case", <<suite, test_case>>, 0)
    /\ NoOutput
    /\ UNCHANGED <<runners, heap, accepted>>

AddSuiteCall(parents, children) ==
    /\ Building
    /\ \E runner \in parents, suite \in children :
         LET r == test_runner_add_suite(runners, suites, runner, suite)
         IN /\ runners' = r[1]
            /\ suites' = r[2]
            /\ added' = IF runner = NULL \/ suite = NULL THEN added
                        ELSE [added EXCEPT !.top = Append(@, suite)]
            /\ last' = Call("test_runner_add_suite", <<runner, suite>>, 0)
    /\ NoOutput
    /\ UNCHANGED <<cases, heap, accepted>>

\* History bookkeeping, stated without the code: an append at count q has to
\* grow the array exactly when q is 0, 8, 16, 32, ...; of a batch of n appends
\* the ones before the first failing growth return 0.
GrowthPoint(q) == q = 0 \/ \E j \in 0 .. 4 : q = INITIAL_RESULT_CAPACITY * (2 ^ j)
AppendsBeforeFailure(count0, n, fail) ==
    LET bad == {i \in 0 .. n - 1 : i \in fail /\ GrowthPoint(count0 + i)}
    IN IF bad = {} THEN n ELSE CHOOSE i \in bad : \A j \in bad : i <= j

\* The block of a results array exists from the first successful realloc.
HeapAfterAppend(C1) ==
    heap \cup {ResultsBlock(c) : c \in {d \in DOMAIN C1 : C1[d].result_capacity > 0}}

AddResultCall(targets, statuses, bound) ==
    /\ Building
    /\ \E test_case \in targets, status \in statuses, alloc_ok \in BOOLEAN :
         /\ test_case # NULL => cases[test_case].result_count < bound
         /\ LET r == test_case_add_result(cases, test_case, status, alloc_ok)
            IN /\ cases' = r[1]
               /\ heap' = HeapAfterAppend(r[1])
               /\ accepted' = IF r[2] = 0
                              THEN [accepted EXCEPT ![test_case] = Append(@, status)]
                              ELSE accepted
               /\ last' = Call("test_case_add_result", <<test_case, status>>, r[2])
    /\ NoOutput
    /\ UNCHANGED <<runners, suites, added>>

\* RESULTS(case, ...) passes count = the number of statuses given.
AddResultsCall(targets, batches, bound) ==
    /\ Building
    /\ \E test_case \in targets, args \in batches :
       \E fail \in {{}} \cup {{i} : i \in 0 .. Len(args) - 1} :
         /\ test_case # NULL => cases[test_case].result_count + Len(args) <= bound
         /\ LET r == test_case_add_results_va(cases, test_case, Len(args), args, fail)
                k == IF test_case = NULL THEN 0
                     ELSE AppendsBeforeFailure(cases[test_case].result_count,
                                               Len(args), fail)
            IN /\ cases' = r[1]
               /\ heap' = HeapAfterAppend(r[1])
               /\ accepted' = IF test_case = NULL THEN accepted
                              ELSE [accepted EXCEPT ![test_case] = @ \o SubSeq(args, 1, k)]
               /\ last' = Call("test_case_add_results_va",
                               <<test_case, Len(args)>> \o args, r[2])
    /\ NoOutput
    /\ UNCHANGED <<runners, suites, added>>

\* fail: the cases whose realloc, if the run's append makes one, fails.
Call_test_runner_run ==
    /\ Building
    /\ \E fail \in SUBSET {c \in DOMAIN cases : cases[c].result_count = 0
                                                /\ cases[c].test_func # NULL} :
         LET r == test_runner_run(runners, suites, cases, Runner, fail)
         IN /\ suites' = r.S
            /\ cases' = r.C
            /\ out' = r.out
            /\ invoked' = r.invoked
            /\ warned' = r.warned
            /\ heap' = HeapAfterAppend(r.C)
            /\ accepted' = [c \in CaseIds |->
                              IF c \in Range(r.invoked) /\ c \notin fail
                              THEN Append(accepted[c], FuncReturn(cases[c].test_func))
                              ELSE accepted[c]]
            /\ last' = Call("test_runner_run", <<Runner>>, 0)
    /\ frees' = <<>>
    /\ reports' = 1
    /\ UNCHANGED <<runners, added>>

Call_print_test_results ==
    /\ Alive
    /\ LET r == print_test_results(runners, suites, cases, Runner)
       IN /\ suites' = r[1]
          /\ out' = r[2]
          /\ last' = Call("print_test_results", <<Runner>>, 0)
    /\ warned' = <<>>
    /\ invoked' = <<>>
    /\ frees' = <<>>
    /\ reports' = IF reports = 0 THEN 1 ELSE 2
    /\ UNCHANGED <<runners, cases, heap, accepted, added>>

\* print_legend takes no argument and touches nothing but stdout.
Call_print_legend ==
    /\ Alive
    /\ out' = print_legend
    /\ warned' = <<>>
    /\ invoked' = <<>>
    /\ frees' = <<>>
    /\ last' = Call("print_legend", <<>>, 0)
    /\ UNCHANGED <<runners, suites, cases, heap, accepted, added, reports>>

Freed(F, block) == block \in Range(F)

\* The free() calls F of a destroy function: the freed objects are gone, and
\* the histories of their lists and logs with them.
Release(F) ==
    /\ frees' = F
    /\ heap' = heap \ Range(F)
    /\ runners' = Restrict(runners, {r \in DOMAIN runners : ~Freed(F, RunnerBlock)})
    /\ suites' = Restrict(suites, {s \in DOMAIN suites : ~Freed(F, SuiteBlock(s))})
    /\ cases' = Restrict(cases, {c \in DOMAIN cases : ~Freed(F, CaseBlock(c))})
    /\ accepted' = [c \in CaseIds |->
                      IF Freed(F, CaseBlock(c)) THEN <<>> ELSE accepted[c]]
    /\ added' = [top |-> IF Freed(F, RunnerBlock) THEN <<>> ELSE added.top,
                 children |-> [s \in SuiteIds |->
                                 IF Freed(F, SuiteBlock(s)) THEN <<>>
                                 ELSE added.children[s]],
                 cases |-> [s \in SuiteIds |->
                              IF Freed(F, SuiteBlock(s)) THEN <<>>
                              ELSE added.cases[s]]]
    /\ NoPrint

\* The caller destroys by hand only what it did not attach: to destroy an
\* attached object would leave its parent with a dangling pointer.
Call_test_case_destroy ==
    /\ Building
    /\ \E test_case \in LooseCases \cup {NULL} :
         /\ Release(test_case_destroy(cases, test_case))
         /\ last' = Call("test_case_destroy", <<test_case>>, 0)

Call_test_case_destroy_siblings ==
    /\ Building
    /\ \E test_case \in LooseCases \cup {NULL} :
         /\ Release(test_case_destroy_siblings(cases, test_case))
         /\ last' = Call("test_case_destroy_siblings", <<test_case>>, 0)

Call_test_suite_destroy ==
    /\ Building
    /\ \E suite \in LooseSuites \cup {NULL} :
         /\ Release(test_suite_destroy(suites, cases, suite))
         /\ last' = Call("test_suite_destroy", <<suite>>, 0)

Call_test_suite_destroy_siblings ==
    /\ Building
    /\ \E suite \in LooseSuites \cup {NULL} :
         /\ Release(test_suite_destroy_siblings(suites, cases, suite))
         /\ last' = Call("test_suite_destroy_siblings", <<suite>>, 0)

\* Nothing is called after the teardown.
Call_test_runner_destroy ==
    /\ Alive
    /\ Release(test_runner_destroy(runners, suites, cases, Runner))
    /\ last' = Call("test_runner_destroy", <<Runner>>, 0)

----------------------------------------------------------------------------
(* Spec: a tree is built, results are recorded, the tree is run, printed   *)
(* and destroyed.                                                          *)

Batches ==
    { <<STATUS_UNEXPECTED_OUTPUT, STATUS_EXPECTED_BUILD_ERROR,
        STATUS_EXPECTED_RUNTIME_ERROR, STATUS_RUNTIME_ERROR>> }

Call_test_suite_create == SuiteCreateCall(Tidy, MaxSuites)
Call_test_case_create == CaseCreateCall(Tidy, MaxCases, TRUE)
Call_test_suite_add_child == AddChildCall(DOMAIN suites, LooseSuites)
Call_test_suite_add_test_case == AddTestCaseCall(DOMAIN suites, LooseCases)
Call_test_runner_add_suite == AddSuiteCall({Runner}, LooseSuites)
Call_test_case_add_results_va == AddResultsCall(DOMAIN cases, Batches, MaxLog)

Next ==
    \/ Call_test_suite_create
    \/ Call_test_case_create
    \/ Call_test_suite_add_child
    \/ Call_test_suite_add_test_case
    \/ Call_test_runner_add_suite
    \/ Call_test_case_add_results_va
    \/ Call_test_runner_run
    \/ Call_print_test_results
    \/ Call_print_legend
    \/ Call_test_runner_destroy

Spec == Init /\ [][Next]_vars

----------------------------------------------------------------------------
(* SpecBuild: the structure alone, built at any pace and with absent       *)
(* arguments, then printed.                                                *)

Build_test_suite_create ==
    SuiteCreateCall(LooseSuites = {}, MaxBuildSuites)
Build_test_case_create ==
    CaseCreateCall(LooseCases = {}, MaxBuildCases, FALSE)
Build_test_suite_add_child ==
    AddChildCall(DOMAIN suites \cup {NULL}, LooseSuites \cup {NULL})
Build_test_suite_add_test_case ==
    AddTestCaseCall(DOMAIN suites \cup {NULL}, LooseCases \cup {NULL})
Build_test_runner_add_suite ==
    AddSuiteCall({Runner, NULL}, LooseSuites \cup {NULL})

NextBuild ==
    \/ Build_test_suite_create
    \/ Build_test_case_create
    \/ Build_test_suite_add_child
    \/ Build_test_suite_add_test_case
    \/ Build_test_runner_add_suite
    \/ Call_print_test_results
    \/ Call_print_legend

SpecBuild == Init /\ [][NextBuild]_vars

----------------------------------------------------------------------------
(* SpecLog: one case, created without a function, and its outcome log.     *)

LogStatuses == {STATUS_SUCCESS, STATUS_BUILD_ERROR}
LogBatches == { <<STATUS_SUCCESS, STATUS_BUILD_ERROR, STATUS_SUCCESS>> }

InitLog ==
    /\ runners = [r \in {RUNNER} |-> test_runner_create]
    /\ suites = <<>>
    /\ cases = [c \in {1} |-> test_case_create(CaseNameOf(1), NULL)]
    /\ heap = {RunnerBlock, CaseBlock(1), CaseNameBlock(1)}
    /\ frees = <<>>
    /\ out = <<>>
    /\ warned = <<>>
    /\ invoked = <<>>
    /\ accepted = [c \in CaseIds |-> <<>>]
    /\ added = [top |-> <<>>,
                children |-> [s \in SuiteIds |-> <<>>],
                cases |-> [s \in SuiteIds |-> <<>>]]
    /\ reports = 0
    /\ last = Call("test_case_create", <<>>, 1)

Log_test_case_add_result == AddResultCall(DOMAIN cases, LogStatuses, MaxLogLen)
Log_test_case_add_results_va == AddResultsCall(DOMAIN cases, LogBatches, MaxLogLen)

NextLog ==
    \/ Log_test_case_add_result
    \/ Log_test_case_add_results_va

SpecLog == InitLog /\ [][NextLog]_vars

----------------------------------------------------------------------------
(* SpecTeardown: a tree is built and results are recorded; the caller      *)
(* destroys by hand what it created and did not attach, and at the end the *)
(* runner.  One suite and one case may be unattached at a time.            *)

Teardown_test_suite_create == SuiteCreateCall(LooseSuites = {}, MaxTeardownSuites)
Teardown_test_case_create == CaseCreateCall(LooseCases = {}, MaxTeardownCases, FALSE)
Teardown_test_suite_add_child == AddChildCall(DOMAIN suites, LooseSuites)
Teardown_test_suite_add_test_case == AddTestCaseCall(DOMAIN suites, LooseCases)
Teardown_test_runner_add_suite == AddSuiteCall({Runner}, LooseSuites)
Teardown_test_case_add_results_va == AddResultsCall(DOMAIN cases, Batches, MaxLog)

NextTeardown ==
    \/ Teardown_test_suite_create
    \/ Teardown_test_case_create
    \/ Teardown_test_suite_add_child
    \/ Teardown_test_suite_add_test_case
    \/ Teardown_test_runner_add_suite
    \/ Teardown_test_case_add_results_va
    \/ Call_test_case_destroy
    \/ Call_test_case_destroy_siblings
    \/ Call_test_suite_destroy
    \/ Call_test_suite_destroy_siblings
    \/ Call_test_runner_destroy

SpecTeardown == Init /\ [][NextTeardown]_vars

----------------------------------------------------------------------------
(* What the claims speak of, stated without the code's loops.              *)

IsRun(l) == l.op = "test_runner_run"
IsPrint(l) == l.op = "print_test_results"
IsDestroy(l) == l.op = "test_runner_destroy"

CasesInSubtree(S, C, s) == UNION {Range(CasesOf(S, C, k)) : k \in SubtreeSuites(S, s)}

\* The number of outcomes of one kind in the logs of a set of cases.
KindCount(C, cs, kind) ==
    Cardinality({p \in UNION {{<<c, i>> : i \in 1 .. C[c].result_count} : c \in cs} :
                    C[p[1]].results[p[2]] = kind})

TallyOf(C, cs) ==
    [success_count |-> KindCount(C, cs, STATUS_SUCCESS),
     unexpected_output_count |-> KindCount(C, cs, STATUS_UNEXPECTED_OUTPUT),
     expected_build_error_count |-> KindCount(C, cs, STATUS_EXPECTED_BUILD_ERROR),
     build_error_count |-> KindCount(C, cs, STATUS_BUILD_ERROR),
     expected_runtime_error_count |-> KindCount(C, cs, STATUS_EXPECTED_RUNTIME_ERROR),
     runtime_error_count |-> KindCount(C, cs, STATUS_RUNTIME_ERROR)]

SubtreeTally(S, C, s) == TallyOf(C, CasesInSubtree(S, C, s))

StatsFresh(R, S, C) ==
    \A s \in ReachableSuites(R, S) : S[s].stats = SubtreeTally(S, C, s)

----------------------------------------------------------------------------
\* C1: right after the recompute pass of print_test_results (called directly
\* or at the end of test_runner_run), the stats of every suite the runner
\* reaches, top-level or nested, are the per-kind counts of the outcomes
\* logged by the cases of its subtree; a suite with no cases and no children
\* has all six counts zero.
C1_StatsAreSubtreeCounts ==
    (IsRun(last) \/ IsPrint(last)) => StatsFresh(runners, suites, cases)

\* A parent whose own cases and whose child suite both contribute outcomes.
C1_Witness ==
    /\ IsPrint(last)
    /\ \E s \in ReachableSuites(runners, suites) :
         \E k \in Range(Children(suites, s)) :
            /\ suites[k].stats # ZeroStats
            /\ suites[s].stats # suites[k].stats
            /\ suites[s].stats = StatsAdd(suites[k].stats,
                                          TallyOf(cases, Range(CasesOf(suites, cases, s))))

----------------------------------------------------------------------------
\* The cases a run is due to execute, among a set of cases: those with a test
\* function and an empty log when the run starts.
Due(C, cs) == {c \in cs : C[c].test_func # NULL /\ C[c].result_count = 0}

\* C2: after test_runner_run with no allocation failure, every case of the
\* tree, in a top-level suite or in a nested one, that has a test function and
\* had an empty log before the run holds exactly the one outcome its function
\* returned; for suite Math (case Add returning Success) with child suite Edge
\* (case Overflow returning BuildError), Edge.stats then counts one build
\* error and Math.stats one success and one build error.
C2_RunRecordsEveryCase ==
    [][ (IsRun(last') /\ warned' = <<>>) =>
          /\ \A c \in Due(cases, ReachableCases(runners, suites, cases)) :
                Log(cases'[c]) = <<FuncReturn(cases[c].test_func)>>
          /\ ( /\ TopLevel(runners, suites) = <<1>>
               /\ Children(suites, 1) = <<2>>
               /\ CasesOf(suites, cases, 1) = <<1>>
               /\ CasesOf(suites, cases, 2) = <<2>>
               /\ Due(cases, {1, 2}) = {1, 2} )
             => /\ suites'[2].stats = [ZeroStats EXCEPT !.build_error_count = 1]
                /\ suites'[1].stats = [ZeroStats EXCEPT !.success_count = 1,
                                                        !.build_error_count = 1]
      ]_vars

\* C3: a case whose log is not empty when test_runner_run starts is not
\* executed by the run and keeps its log (same outcomes, order and length);
\* if the runner reaches it, the stats of its suite count exactly its
\* pre-loaded outcomes for it.
C3_ManualResultsTakePrecedence ==
    [][ IsRun(last') =>
          \A c \in DOMAIN cases :
             cases[c].result_count > 0 =>
                /\ c \notin Range(invoked')
                /\ cases'[c] = cases[c]
                /\ \A s \in ReachableSuites(runners, suites) :
                      c \in Range(CasesOf(suites, cases, s)) =>
                         suites'[s].stats =
                            StatsAdd(TallyOf(cases, {c}),
                                     TallyOf(cases', CasesInSubtree(suites, cases, s) \ {c}))
      ]_vars

\* A run that executed one case and skipped a pre-loaded case of a top-level
\* suite, although that case has a test function.
C3_Witness ==
    /\ IsRun(last)
    /\ invoked # <<>>
    /\ \E s \in Range(TopLevel(runners, suites)) :
         \E c \in Range(CasesOf(suites, cases, s)) :
            /\ cases[c].test_func # NULL
            /\ cases[c].result_count = 4
            /\ c \notin Range(invoked)
            /\ suites[s].stats.unexpected_output_count >= 1

----------------------------------------------------------------------------
IsAddResult(l) == l.op = "test_case_add_result"
IsAddResults(l) == l.op = "test_case_add_results_va"

\* C4: after any sequence of test_case_add_result calls, any of which may
\* fail when it has to grow the array, the log of the case is the sequence of
\* the statuses of the calls that returned 0, in call order, across the
\* growths from 0 to 8 to 16 and on; a call that returns -1 leaves results,
\* result_count and result_capacity as they were.
C4_LogIsAcceptedAppends ==
    [][ IsAddResult(last') =>
          LET c == last'.args[1]
              status == last'.args[2]
          IN /\ last'.rc \in {0, -1}
             /\ Log(cases'[c]) = accepted'[c]
             /\ last'.rc = 0 => Log(cases'[c]) = Append(Log(cases[c]), status)
             /\ last'.rc = -1 =>
                   /\ cases'[c].results = cases[c].results
                   /\ cases'[c].result_count = cases[c].result_count
                   /\ cases'[c].result_capacity = cases[c].result_capacity
      ]_vars

\* An append refused at the growth from 16 to 32, on a log of both statuses
\* that grew from 0 to 8 to 16.
C4_Witness ==
    /\ IsAddResult(last)
    /\ last.rc = -1
    /\ cases[1].result_count = 2 * INITIAL_RESULT_CAPACITY
    /\ cases[1].result_capacity = 2 * INITIAL_RESULT_CAPACITY
    /\ Range(Log(cases[1])) = LogStatuses
    /\ Log(cases[1]) = accepted[1]

\* The single appends of a sequence of statuses, none failing.
RECURSIVE AppendEach(_, _, _)
AppendEach(C, c, statuses) ==
    IF statuses = <<>> THEN C
    ELSE AppendEach(test_case_add_result(C, c, Head(statuses), TRUE)[1], c,
                    Tail(statuses))

\* C5: test_case_add_results_va(case, n, o1..on), n >= 1, does what single
\* appends of o1, o2, ... do when stopped at the first one that fails: with k
\* the number of outcomes it appended, the log is the prior log followed by
\* o1..ok and the case is as k single appends leave it, it returns 0 exactly
\* when k = n, and when k < n the next append is one that had to grow the
\* array; the k outcomes appended before it stay.
C5_BatchIsSequentialAppends ==
    [][ IsAddResults(last') =>
          LET c == last'.args[1]
              n == last'.args[2]
              batch == SubSeq(last'.args, 3, 2 + n)
              k == cases'[c].result_count - cases[c].result_count
          IN /\ n >= 1
             /\ k \in 0 .. n
             /\ last'.rc \in {0, -1}
             /\ (last'.rc = 0) <=> (k = n)
             /\ Log(cases'[c]) = Log(cases[c]) \o SubSeq(batch, 1, k)
             /\ cases' = AppendEach(cases, c, SubSeq(batch, 1, k))
             /\ k < n => test_case_add_result(cases', c, batch[k + 1], FALSE)[2] = -1
      ]_vars

\* A batch of three that failed at the growth from 16 to 32 after two of its
\* outcomes were appended.
C5_Witness ==
    /\ IsAddResults(last)
    /\ last.rc = -1
    /\ last.args[2] = 3
    /\ cases[1].result_count = 2 * INITIAL_RESULT_CAPACITY
    /\ SubSeq(Log(cases[1]), 15, 16) = SubSeq(last.args, 3, 4)
    /\ Log(cases[1]) = accepted[1]

----------------------------------------------------------------------------
IsAdd(l) ==
    l.op \in {"test_suite_add_child", "test_suite_add_test_case", "test_runner_add_suite"}

\* The lists as the code traverses them, in the shape of the add history.
Lists(R, S, C) ==
    [top |-> TopLevel(R, S),
     children |-> [s \in SuiteIds |-> IF s \in DOMAIN S THEN Children(S, s) ELSE <<>>],
     cases |-> [s \in SuiteIds |-> IF s \in DOMAIN S THEN CasesOf(S, C, s) ELSE <<>>]]

\* C6: when every suite and case is freshly created and attached at most
\* once, each of test_suite_add_child, test_suite_add_test_case and
\* test_runner_add_suite puts its argument at the end of the one list it
\* names and changes no other list, so that every list is traversed in the
\* order in which it was added to; with a null parent or runner, or a null
\* child or case, the call changes nothing.
C6_AddsAppendInOrder ==
    [][ IsAdd(last') =>
          LET to == last'.args[1]
              x == last'.args[2]
              before == Lists(runners, suites, cases)
              after == Lists(runners', suites', cases')
          IN IF to = NULL \/ x = NULL
             THEN runners' = runners /\ suites' = suites /\ cases' = cases
             ELSE /\ after = added'
                  /\ after =
                       CASE last'.op = "test_suite_add_child" ->
                               [before EXCEPT !.children[to] = Append(@, x)]
                         [] last'.op = "test_suite_add_test_case" ->
                               [before EXCEPT !.cases[to] = Append(@, x)]
                         [] last'.op = "test_runner_add_suite" ->
                               [before EXCEPT !.top = Append(@, x)]
      ]_vars

\* A call with a null argument on a tree whose top-level suite holds two
\* child suites and two cases, each list in the order it was added.
C6_Witness ==
    /\ IsAdd(last)
    /\ last.args[1] = NULL \/ last.args[2] = NULL
    /\ Lists(runners, suites, cases) = added
    /\ \E s \in Range(TopLevel(runners, suites)) :
         /\ Len(Children(suites, s)) = 2
         /\ Len(CasesOf(suites, cases, s)) = 2

----------------------------------------------------------------------------
\* A suite as print_test_results may leave it: all but its stats.
SansStats(suite) == [suite EXCEPT !.stats = ZeroStats]

\* C7 as stated: print_test_results changes no part of the tree, the stats
\* of every suite included, in whatever state the tree was when it was
\* called, and a second consecutive call writes what the first wrote.
C7_PrintChangesNothing ==
    [][ IsPrint(last') =>
          /\ runners' = runners
          /\ suites' = suites
          /\ cases' = cases
          /\ IsPrint(last) => out' = out
      ]_vars

\* C7, amended: print_test_results changes no part of the tree but the
\* stats of the suites the runner reaches (names, links and logs stay), and
\* sets those to the counts of their subtrees; called on a tree whose stats
\* are those counts already, as a report leaves them, it changes nothing at
\* all and writes exactly what the previous report wrote.
C7_PrintChangesOnlyStaleStats ==
    [][ IsPrint(last') =>
          /\ runners' = runners
          /\ cases' = cases
          /\ DOMAIN suites' = DOMAIN suites
          /\ \A s \in DOMAIN suites :
                /\ SansStats(suites'[s]) = SansStats(suites[s])
                /\ s \notin ReachableSuites(runners, suites) => suites'[s] = suites[s]
          /\ StatsFresh(runners', suites', cases')
          /\ StatsFresh(runners, suites, cases) => suites' = suites
          /\ reports >= 1 => suites' = suites
          /\ (IsRun(last) \/ IsPrint(last)) => out' = out
      ]_vars

\* A second consecutive report of a tree in which a nested suite has counted
\* outcomes, shown on its line.
C7_Witness ==
    /\ IsPrint(last)
    /\ reports = 2
    /\ \E s \in ReachableSuites(runners, suites) :
         \E k \in Range(Children(suites, s)) :
            /\ suites[k].stats # ZeroStats
            /\ \E i \in 1 .. Len(out) :
                  /\ out[i].kind = "suite"
                  /\ out[i].name = suites[k].name
                  /\ out[i].stats = suites[k].stats

----------------------------------------------------------------------------
\* The blocks the runner owns: itself, the suites it reaches with their
\* names, their cases with their names and, where allocated, their logs.
Owned(R, S, C) ==
    {RunnerBlock}
    \cup UNION {{SuiteBlock(s), SuiteNameBlock(s)} : s \in ReachableSuites(R, S)}
    \cup UNION {{CaseBlock(c), CaseNameBlock(c)} : c \in ReachableCases(R, S, C)}
    \cup {ResultsBlock(c) : c \in {d \in ReachableCases(R, S, C) :
                                       C[d].result_capacity > 0}}

\* C8: test_runner_destroy, on a tree in which every suite and case was
\* attached to one parent, frees the runner, every suite it reaches, every
\* case of those suites and every case's name and log exactly once each:
\* each was allocated, none is freed twice, none stays allocated.
C8_DestroyFreesEverythingOnce ==
    [][ (IsDestroy(last') /\ last'.args[1] # NULL) =>
          LET owned == Owned(runners, suites, cases)
          IN /\ owned \subseteq heap
             /\ \A b \in owned : Occurrences(frees', b) = 1
             /\ \A i \in 1 .. Len(frees') : Occurrences(frees', frees'[i]) = 1
             /\ Range(frees') \subseteq heap
             /\ heap' \cap owned = {}
             /\ \A s \in ReachableSuites(runners, suites) : s \notin DOMAIN suites'
             /\ \A c \in ReachableCases(runners, suites, cases) : c \notin DOMAIN cases'
             /\ RUNNER \notin DOMAIN runners'
      ]_vars

\* The teardown of a tree with a nested suite and a case with a log: the
\* child suite is freed before its parent, the runner last.
C8_Witness ==
    /\ IsDestroy(last)
    /\ frees # <<>>
    /\ frees[Len(frees)] = RunnerBlock
    /\ \E c \in CaseIds : Freed(frees, ResultsBlock(c))
    /\ \E i, j \in 1 .. Len(frees) :
         /\ i < j
         /\ frees[i] = SuiteBlock(2)
         /\ frees[j] = SuiteBlock(1)

----------------------------------------------------------------------------
\* The cases test_runner_run visits, in the order it visits them: the cases
\* of the top-level suites.
RECURSIVE VisitOrder(_, _, _)
VisitOrder(S, C, tops) ==
    IF tops = <<>> THEN <<>>
    ELSE CasesOf(S, C, Head(tops)) \o VisitOrder(S, C, Tail(tops))

\* C9: a failed append during test_runner_run does not stop the run: the
\* case whose append failed keeps an empty log and is reported on stderr,
\* every case the run visits that has a function and an empty log is executed
\* exactly once, in order, the others after a failure included, and the
\* recompute and the render take place after the pass.
C9_RunContinuesAfterFailedAppend ==
    [][ IsRun(last') =>
          LET visited == VisitOrder(suites, cases, TopLevel(runners, suites))
              IsDue(c) == c \in Due(cases, DOMAIN cases)
              due == SelectSeq(visited, IsDue)
              WarnedFor(c) == cases[c].name \in Range(warned')
          IN /\ invoked' = due
             /\ Len(warned') <= Len(due)
             /\ \A i \in 1 .. Len(due) :
                   IF WarnedFor(due[i])
                   THEN Log(cases'[due[i]]) = <<>>
                   ELSE Log(cases'[due[i]]) = <<FuncReturn(cases[due[i]].test_func)>>
             /\ StatsFresh(runners', suites', cases')
             /\ TopLevel(runners, suites) # <<>> =>
                   /\ SubSeq(out', 1, Len(print_legend)) = print_legend
                   /\ Cardinality({i \in 1 .. Len(out') : out'[i].kind = "suite"})
                         = Cardinality(ReachableSuites(runners, suites))
                   /\ Cardinality({i \in 1 .. Len(out') : out'[i].kind = "case"})
                         = Cardinality(ReachableCases(runners, suites, cases))
      ]_vars

\* A run whose first append failed and whose later case was still executed
\* and recorded, followed by the render.
C9_Witness ==
    /\ IsRun(last)
    /\ Len(invoked) = 2
    /\ warned = <<cases[invoked[1]].name>>
    /\ Log(cases[invoked[1]]) = <<>>
    /\ Log(cases[invoked[2]]) = <<FuncReturn(cases[invoked[2]].test_func)>>
    /\ out # <<>>

----------------------------------------------------------------------------
\* The display columns a suite line takes before its padding: one per glyph
\* of the prefix, two for the connector, one per character of the name.
PrintedColumns(line) == Len(line.prefix) + 2 + Len(line.name)

\* C10: on every suite line of the rendered tree the statistics start at
\* display column 50, whatever the depth of the suite, the prefix of its
\* ancestors (spaces or a vertical bar) and the length of its name, whenever
\* prefix, connector and name fit in that width; when they do not, one space
\* separates the name from the statistics.
C10_StatsColumnAligned ==
    \A i \in 1 .. Len(out) :
       out[i].kind = "suite" =>
          IF PrintedColumns(out[i]) < TARGET_WIDTH
          THEN PrintedColumns(out[i]) + out[i].padding = TARGET_WIDTH
          ELSE out[i].padding = 1

====
